---- MODULE Spec2Model ----
(***************************************************************************)
(* Model of the macro-micro-linkage backend: the e-Stat date-label parser, *)
(* the tidy transformer, the wide projector (estat_services.py), the       *)
(* econometric engine (analysis_services.py) and the forecast endpoint     *)
(* (main.py).                                                              *)
(*                                                                         *)
(* Strings are sequences of one-character strings.  The kanji markers are  *)
(* written "nen" (the year marker), "gatsu" (the month marker) and "do"    *)
(* (the second character of the fiscal-year marker "nen","do").            *)
(* A date is a record [y, m, d]; NaT is the record of zeros.               *)
(* A number is a rational [n, d] in lowest terms with d > 0; the null      *)
(* value (NaN) is the record with d = 0.                                   *)
(***************************************************************************)
EXTENDS Integers, Sequences, FiniteSets, TLC

VARIABLES
    dlabel,     \* DateNormalizer: the label handed to parse_date_robust
    dres,       \* DateNormalizer: what the call returned
    raw,        \* TidyTransformer: the decoded e-Stat payload
    tidy,       \* TidyTransformer: the outcome of _transform_to_tidy_data
    wideIn,     \* WideProjector: the tidy table handed to to_wide_format
    wide,       \* WideProjector: the table it returned
    engIn,      \* EconometricEngine: the arguments of the constructor
    engine,     \* EconometricEngine: the instance (y, exog, model)
    call,       \* EconometricEngine: the last call on the instance, its outcome
    fitDone,    \* history: a fit call on the instance has returned
    fitRaised,  \* history: a fit call on the instance has raised
    req,        \* forecast endpoint: the requests being handled, by id
    heap        \* forecast endpoint: the engine instances created so far

vars ==
    <<dlabel, dres, raw, tidy, wideIn, wide, engIn, engine, call, fitDone, fitRaised,
      req, heap>>

reqVars == <<req, heap>>

estatVars == <<dlabel, dres, raw, tidy, wideIn, wide>>
engineVars == <<engIn, engine, call, fitDone, fitRaised>>

\* ------------------------------------------------------------------ bounds

\* Atoms that may follow the leading four-digit year of a date label.
MaxSuffix == 3

\* Records in one payload handed to the tidy transformer.
MaxRecs == 3

\* Rows of a tidy table handed to the wide projector.
MaxTidyRows == 3

\* Observations of a series handed to the engine's constructor.
MaxObs == 3

\* The largest horizon asked of predict.
MaxHorizon == 3

\* ----------------------------------------------------------------- strings

Digits == {"0", "1", "2", "3", "4", "5", "6", "7", "8", "9"}

DigitVal(c) ==
    CASE c = "0" -> 0 [] c = "1" -> 1 [] c = "2" -> 2 [] c = "3" -> 3
      [] c = "4" -> 4 [] c = "5" -> 5 [] c = "6" -> 6 [] c = "7" -> 7
      [] c = "8" -> 8 [] c = "9" -> 9 [] OTHER -> 0

RECURSIVE Flatten(_)
Flatten(ss) ==
    IF ss = <<>> THEN <<>> ELSE Head(ss) \o Flatten(Tail(ss))

\* str.isdigit(): non-empty and every character a digit.
IsDigit(s) ==
    /\ Len(s) > 0
    /\ \A i \in 1..Len(s) : s[i] \in Digits

RECURSIVE NumVal(_)
NumVal(s) ==
    IF s = <<>> THEN 0 ELSE 10 * NumVal(SubSeq(s, 1, Len(s) - 1)) + DigitVal(s[Len(s)])

DigitChars == <<"0", "1", "2", "3", "4", "5", "6", "7", "8", "9">>

\* The decimal digits of k, at least w of them.
RECURSIVE ZeroPad(_, _)
ZeroPad(k, w) ==
    IF k < 10 /\ w <= 1 THEN <<DigitChars[k + 1]>>
    ELSE ZeroPad(k \div 10, w - 1) \o <<DigitChars[(k % 10) + 1]>>

StartsWith(s, pat) ==
    /\ Len(pat) <= Len(s)
    /\ SubSeq(s, 1, Len(pat)) = pat

\* pat in s
Contains(s, pat) ==
    \E i \in 1..(Len(s) + 1) : StartsWith(SubSeq(s, i, Len(s)), pat)

\* s.replace(pat, rep): every non-overlapping occurrence, left to right.
RECURSIVE Replace(_, _, _)
Replace(s, pat, rep) ==
    IF s = <<>> THEN <<>>
    ELSE IF StartsWith(s, pat)
         THEN rep \o Replace(SubSeq(s, Len(pat) + 1, Len(s)), pat, rep)
         ELSE <<Head(s)>> \o Replace(Tail(s), pat, rep)

\* s.strip()
RECURSIVE LStrip(_)
LStrip(s) ==
    IF s # <<>> /\ Head(s) = " " THEN LStrip(Tail(s)) ELSE s

RECURSIVE RStrip(_)
RStrip(s) ==
    IF s # <<>> /\ s[Len(s)] = " " THEN RStrip(SubSeq(s, 1, Len(s) - 1)) ELSE s

Strip(s) == RStrip(LStrip(s))

\* s.split("-")
RECURSIVE SplitDash(_)
SplitDash(s) ==
    IF \A i \in 1..Len(s) : s[i] # "-" THEN <<s>>
    ELSE LET k == CHOOSE i \in 1..Len(s) :
                      s[i] = "-" /\ \A j \in 1..(i - 1) : s[j] # "-"
         IN  <<SubSeq(s, 1, k - 1)>> \o SplitDash(SubSeq(s, k + 1, Len(s)))

\* ------------------------------------------------------------------- dates

NaT == [y |-> 0, m |-> 0, d |-> 0]

MkDate(yy, mm, dd) == [y |-> yy, m |-> mm, d |-> dd]

IsLeap(yy) == (yy % 4 = 0 /\ yy % 100 # 0) \/ yy % 400 = 0

DaysInMonth(yy, mm) ==
    IF mm = 2 THEN (IF IsLeap(yy) THEN 29 ELSE 28)
    ELSE IF mm \in {4, 6, 9, 11} THEN 30 ELSE 31

ValidDate(yy, mm, dd) ==
    /\ yy >= 1
    /\ mm \in 1..12
    /\ dd >= 1
    /\ dd <= DaysInMonth(yy, mm)

DateLT(a, b) ==
    \/ a.y < b.y
    \/ a.y = b.y /\ a.m < b.m
    \/ a.y = b.y /\ a.m = b.m /\ a.d < b.d

DateLE(a, b) == a = b \/ DateLT(a, b)

\* The outcome of one library parse: a date, or a raised error.
Raised == [y |-> -1, m |-> 0, d |-> 0]

\* pd.to_datetime(s) on a dash-separated calendar string: "YYYY", "YYYY-M"
\* or "YYYY-M-D" with a valid month and day gives that date (day 1 when the
\* day is absent); any other string of the label alphabet raises.
ToDatetime(s) ==
    LET f == SplitDash(s)
        okY == Len(f[1]) = 4 /\ IsDigit(f[1])
        okF(i) == Len(f[i]) \in {1, 2} /\ IsDigit(f[i])
    IN  IF Len(f) = 1 /\ okY /\ ValidDate(NumVal(f[1]), 1, 1)
        THEN MkDate(NumVal(f[1]), 1, 1)
        ELSE IF Len(f) = 2 /\ okY /\ okF(2) /\ ValidDate(NumVal(f[1]), NumVal(f[2]), 1)
        THEN MkDate(NumVal(f[1]), NumVal(f[2]), 1)
        ELSE IF Len(f) = 3 /\ okY /\ okF(2) /\ okF(3)
                /\ ValidDate(NumVal(f[1]), NumVal(f[2]), NumVal(f[3]))
        THEN MkDate(NumVal(f[1]), NumVal(f[2]), NumVal(f[3]))
        ELSE Raised

\* pd.to_datetime(s, errors='coerce'): NaT instead of an error.
ToDatetimeCoerce(s) ==
    IF ToDatetime(s) = Raised THEN NaT ELSE ToDatetime(s)

\* pd.to_datetime(s, format="%Y%m") on a six-digit string.
StrpYm(s) ==
    LET yy == NumVal(SubSeq(s, 1, 4))
        mm == NumVal(SubSeq(s, 5, 6))
    IN  IF ValidDate(yy, mm, 1) THEN MkDate(yy, mm, 1) ELSE Raised

\* pd.to_datetime(s, format="%Y%m%d") on an eight-digit string.
StrpYmd(s) ==
    LET yy == NumVal(SubSeq(s, 1, 4))
        mm == NumVal(SubSeq(s, 5, 6))
        dd == NumVal(SubSeq(s, 7, 8))
    IN  IF ValidDate(yy, mm, dd) THEN MkDate(yy, mm, dd) ELSE Raised

\* pd.to_datetime(s, format="%Y") on a four-digit string.
StrpY(s) ==
    LET yy == NumVal(s)
    IN  IF ValidDate(yy, 1, 1) THEN MkDate(yy, 1, 1) ELSE Raised

\* The rules with the bare-year rule tried before the fiscal-year rule.
ParseRules_BareYearFirst(s) ==
    IF Contains(s, <<"gatsu">>)
    THEN ToDatetime(Replace(Replace(s, <<"nen">>, <<"-">>), <<"gatsu">>, <<"-", "0", "1">>))
    ELSE IF Contains(s, <<"nen">>)
    THEN ToDatetime(Replace(s, <<"nen">>, <<"-", "0", "1", "-", "0", "1">>))
    ELSE IF Contains(s, <<"nen", "do">>)
    THEN ToDatetime(Replace(s, <<"nen", "do">>, <<"-", "0", "4", "-", "0", "1">>))
    ELSE IF IsDigit(s) /\ Len(s) = 6 THEN StrpYm(s)
    ELSE IF IsDigit(s) /\ Len(s) = 8 THEN StrpYmd(s)
    ELSE IF IsDigit(s) /\ Len(s) = 4 THEN StrpY(s)
    ELSE ToDatetimeCoerce(s)

\* The try-block of parse_date_robust: the first matching rule decides.
ParseRules(s) ==
    IF Contains(s, <<"gatsu">>)
    THEN ToDatetime(Replace(Replace(s, <<"nen">>, <<"-">>), <<"gatsu">>, <<"-", "0", "1">>))
    ELSE IF Contains(s, <<"nen", "do">>)
    THEN ToDatetime(Replace(s, <<"nen", "do">>, <<"-", "0", "4", "-", "0", "1">>))
    ELSE IF Contains(s, <<"nen">>)
    THEN ToDatetime(Replace(s, <<"nen">>, <<"-", "0", "1", "-", "0", "1">>))
    ELSE IF IsDigit(s) /\ Len(s) = 6 THEN StrpYm(s)
    ELSE IF IsDigit(s) /\ Len(s) = 8 THEN StrpYmd(s)
    ELSE IF IsDigit(s) /\ Len(s) = 4 THEN StrpY(s)
    ELSE ToDatetimeCoerce(s)

\* parse_date_robust(x): strip, apply the rules, and turn any error into NaT.
parse_date_robust(x) ==
    LET r == ParseRules(Strip(x))
    IN  IF r = Raised THEN NaT ELSE r

\* ------------------------------------------------------- date-label inputs

Year2023 == <<"2", "0", "2", "3">>
Year2024 == <<"2", "0", "2", "4">>

LabelAtoms ==
    { <<"nen">>, <<"gatsu">>, <<"do">>, <<"-">>, <<"x">>,
      <<"1">>, <<"0", "2">>, <<"1", "2">>, <<"1", "3">>, <<"3", "0">> }

RECURSIVE AtomSeqs(_)
AtomSeqs(n) ==
    IF n = 0 THEN {<<>>}
    ELSE AtomSeqs(n - 1) \cup
         {Append(p, a) : p \in {q \in AtomSeqs(n - 1) : Len(q) = n - 1}, a \in LabelAtoms}

\* A label is a four-digit year followed by up to MaxSuffix atoms, possibly
\* padded with blanks; "x" alone stands for a label that is no date at all.
\* Digit-only labels of a length the rules do not name (5, 7, 9 and more
\* digits) are left out: what the generic parse makes of them is not decided
\* by this repository.
LabelCores ==
    { c \in { <<yy>> \o p : yy \in {Year2023, Year2024}, p \in AtomSeqs(MaxSuffix) } :
        IsDigit(Flatten(c)) => Len(Flatten(c)) \in {4, 6, 8} }

Labels ==
    LabelCores \cup {<<<<" ">>>> \o c \o <<<<" ">>>> : c \in LabelCores} \cup {<<<<"x">>>>}

\* ------------------------------------------------- DateNormalizer behaviour

\* No call has returned yet.
Pending == [y |-> -2, m |-> 0, d |-> 0]

IdleLabel == <<>>
IdleRaw == [shape |-> "idle", recs |-> <<>>]
IdleTidy == [status |-> "idle", rows |-> <<>>]
IdleWideIn == [hasCat |-> FALSE, rows |-> <<>>]
IdleWide == [status |-> "idle", index |-> <<>>, columns |-> <<>>, cells |-> <<>>]
NoExog == [given |-> FALSE, obs |-> <<>>]
IdleEngIn == [target |-> <<>>, exog |-> NoExog]
NoModel == [fitted |-> FALSE, nobs |-> 0]
NoEngine == [alive |-> FALSE, y |-> <<>>, exog |-> <<>>, model |-> NoModel]
NoCall ==
    [op |-> "none", status |-> "none", n |-> 0, index |-> <<>>, mean |-> <<>>,
     lower |-> <<>>, upper |-> <<>>, lags |-> 0, pvalue |-> [n |-> 0, d |-> 0],
     white |-> FALSE]

ReqIdle ==
    /\ req = <<>>
    /\ heap = <<>>

EngineIdle ==
    /\ ReqIdle
    /\ engIn = IdleEngIn
    /\ engine = NoEngine
    /\ call = NoCall
    /\ fitDone = FALSE
    /\ fitRaised = FALSE

InitDate ==
    /\ dlabel \in Labels
    /\ dres = Pending
    /\ raw = IdleRaw
    /\ tidy = IdleTidy
    /\ wideIn = IdleWideIn
    /\ wide = IdleWide
    /\ EngineIdle

\* One call parse_date_robust(label).
ParseDate ==
    /\ dres = Pending
    /\ dres' = parse_date_robust(Flatten(dlabel))
    /\ UNCHANGED <<dlabel, raw, tidy, wideIn, wide, engineVars, reqVars>>

NextDate == ParseDate

SpecDate == InitDate /\ [][NextDate]_vars

\* ------------------------------------------------------------ C6

TwoDigit == { <<a, b>> : a \in {"0", "1", "3"}, b \in {"0", "1", "2", "3"} }

\* C6: parse_date_robust never raises: its result is a date or NaT.  A label
\* "<year>nen<month>gatsu" gives the 1st of that month, "<year>nen-do" gives
\* April 1, "<year>nen" gives January 1, YYYYMM gives day 1 of the month,
\* YYYYMMDD gives that day, YYYY gives January 1.  The earliest matching rule
\* alone decides: a label with the month marker that the month rule cannot
\* read, and a six- or eight-digit label with an invalid month or day, give
\* NaT.
C6_RuleOrder ==
    dres # Pending =>
        LET s == Strip(Flatten(dlabel))
        IN  /\ dres # Raised
            /\ dres = NaT \/ ValidDate(dres.y, dres.m, dres.d)
            /\ \A yy \in {Year2023, Year2024} :
                /\ \A mm \in {<<"1">>} \cup TwoDigit :
                    /\ s = yy \o <<"nen">> \o mm \o <<"gatsu">> =>
                         dres = IF NumVal(mm) \in 1..12
                                THEN MkDate(NumVal(yy), NumVal(mm), 1) ELSE NaT
                    /\ s = yy \o <<"nen", "do">> \o mm \o <<"gatsu">> => dres = NaT
                    /\ Len(mm) = 2 /\ s = yy \o mm =>
                         dres = IF NumVal(mm) \in 1..12
                                THEN MkDate(NumVal(yy), NumVal(mm), 1) ELSE NaT
                    /\ \A dd \in TwoDigit :
                         Len(mm) = 2 /\ s = yy \o mm \o dd =>
                           dres = IF ValidDate(NumVal(yy), NumVal(mm), NumVal(dd))
                                  THEN MkDate(NumVal(yy), NumVal(mm), NumVal(dd))
                                  ELSE NaT
                /\ s = yy \o <<"nen", "do">> => dres = MkDate(NumVal(yy), 4, 1)
                /\ s = yy \o <<"nen">> => dres = MkDate(NumVal(yy), 1, 1)
                /\ s = yy => dres = MkDate(NumVal(yy), 1, 1)

\* The fiscal-year label of 2023 has been parsed to 2023-04-01.
C6_Witness ==
    /\ Flatten(dlabel) = Year2023 \o <<"nen", "do">>
    /\ dres = MkDate(2023, 4, 1)

\* ----------------------------------------------------------------- numbers

Null == [n |-> 0, d |-> 0]

Abs(i) == IF i < 0 THEN -i ELSE i

RECURSIVE Gcd(_, _)
Gcd(a, b) == IF b = 0 THEN a ELSE Gcd(b, a % b)

\* The rational nn/dd (dd > 0) in lowest terms.
Rat(nn, dd) ==
    LET g == Gcd(Abs(nn), dd)
    IN  [n |-> nn \div g, d |-> dd \div g]

RatAdd(a, b) == Rat(a.n * b.d + b.n * a.d, a.d * b.d)

RatLT(a, b) == a.n * b.d < b.n * a.d

\* a + (b - a) * k / m
RatLerp(a, b, k, m) ==
    Rat(a.n * b.d * m + (b.n * a.d - a.n * b.d) * k, a.d * b.d * m)

RECURSIVE RatSum(_)
RatSum(vs) ==
    IF vs = <<>> THEN Rat(0, 1) ELSE RatAdd(Head(vs), RatSum(Tail(vs)))

RECURSIVE NonNull(_)
NonNull(vs) ==
    IF vs = <<>> THEN <<>>
    ELSE IF Head(vs) = Null THEN NonNull(Tail(vs))
    ELSE <<Head(vs)>> \o NonNull(Tail(vs))

\* A mean that keeps the first value of the group.
Mean_FirstValue(vs) ==
    LET ws == NonNull(vs)
    IN  IF ws = <<>> THEN Null ELSE Head(ws)

\* mean(): the nulls are skipped; the mean of no value is null.
Mean(vs) ==
    LET ws == NonNull(vs)
    IN  IF ws = <<>> THEN Null
        ELSE Rat(RatSum(ws).n, RatSum(ws).d * Len(ws))

\* ---------------------------------------------------------- TidyTransformer

\* A time-axis code of a payload stands for the label CLASS_INF gives it: a
\* six-digit month, an eight-digit day, a month-marked label, or a quarter
\* label that no rule reads.  A code with no entry in the classification is
\* left NaN by map(), and str() of it is "nan".
TimeLabel(code) ==
    CASE code.fmt = "ym" -> ZeroPad(code.y, 4) \o ZeroPad(code.m, 2)
      [] code.fmt = "ymd" -> ZeroPad(code.y, 4) \o ZeroPad(code.m, 2) \o ZeroPad(code.d, 2)
      [] code.fmt = "kanji" -> ZeroPad(code.y, 4) \o <<"nen">> \o ZeroPad(code.m, 1) \o <<"gatsu">>
      [] code.fmt = "quarter" -> ZeroPad(code.y, 4) \o <<"nen", "1", "x", "3", "gatsu", "x">>
      [] OTHER -> <<"n", "a", "n">>

TimeCode(fmt, yy, mm, dd) == [fmt |-> fmt, y |-> yy, m |-> mm, d |-> dd]

\* "202302", "2023nen1gatsu" and the quarter label of 2023.
CodeFeb == TimeCode("ym", 2023, 2, 1)
CodeJan == TimeCode("kanji", 2023, 1, 1)
CodeQuarter == TimeCode("quarter", 2023, 1, 1)

TimeCodes == {CodeFeb, CodeJan, CodeQuarter}

CatCodes == {"c1", "c2"}

CatLabel(code) == IF code = "c1" THEN "A" ELSE "B"

\* The raw "$" strings: a number, and the e-Stat mark of a missing value.
RawValues == { <<"1", "0">>, <<"-">> }

RawRecord == [time : TimeCodes, val : RawValues, cat : CatCodes]

RECURSIVE SeqsUpTo(_, _)
SeqsUpTo(S, n) ==
    IF n = 0 THEN {<<>>}
    ELSE SeqsUpTo(S, n - 1) \cup
         {Append(p, a) : p \in {q \in SeqsUpTo(S, n - 1) : Len(q) = n - 1}, a \in S}

\* shape: "ok", or what the payload lacks: the STATISTICAL_DATA object, the
\* time-axis class object (no column named after the time axis), or the "$"
\* field of the records.
Payloads ==
    [shape : {"ok"}, recs : SeqsUpTo(RawRecord, MaxRecs)]
        \cup [shape : {"noStatData", "noTimeAxis", "noValueField"}, recs : SeqsUpTo(RawRecord, 1)]

\* A coercion that fills a non-numeric entry with zero.
ToNumeric_FillZero(s) == IF IsDigit(s) THEN Rat(NumVal(s), 1) ELSE Rat(0, 1)

\* pd.to_numeric(errors="coerce") on a "$" string.
ToNumeric(s) == IF IsDigit(s) THEN Rat(NumVal(s), 1) ELSE Null

\* _apply_metadata, the value coercion and the row-wise date parse: one row
\* per record, in the order of the records; src is the record's position.
LabelledRows(recs) ==
    [i \in 1..Len(recs) |->
        [src |-> i,
         date |-> parse_date_robust(TimeLabel(recs[i].time)),
         value |-> ToNumeric(recs[i].val),
         cat |-> CatLabel(recs[i].cat)]]

\* A drop that stops at the first unparseable date and loses the rest.
RECURSIVE DropNaT_StopAtFirst(_)
DropNaT_StopAtFirst(rows) ==
    IF rows = <<>> THEN <<>>
    ELSE IF Head(rows).date = NaT THEN <<>>
    ELSE <<Head(rows)>> \o DropNaT_StopAtFirst(Tail(rows))

\* dropna(subset=["date"])
RECURSIVE DropNaT(_)
DropNaT(rows) ==
    IF rows = <<>> THEN <<>>
    ELSE IF Head(rows).date = NaT THEN DropNaT(Tail(rows))
    ELSE <<Head(rows)>> \o DropNaT(Tail(rows))

\* Insert row r into the date-sorted rows, after the rows of the same date.
RECURSIVE InsertByDate(_, _)
InsertByDate(r, rows) ==
    IF rows = <<>> THEN <<r>>
    ELSE IF DateLT(r.date, Head(rows).date) THEN <<r>> \o rows
    ELSE <<Head(rows)>> \o InsertByDate(r, Tail(rows))

\* sort_values("date", ascending=True)
RECURSIVE SortByDate(_)
SortByDate(rows) ==
    IF rows = <<>> THEN <<>>
    ELSE InsertByDate(rows[Len(rows)], SortByDate(SubSeq(rows, 1, Len(rows) - 1)))

\* A transformer that raises when the cleaning leaves no row.
TransformToTidy_RaiseWhenEmpty(p) ==
    IF p.shape = "noStatData" THEN [status |-> "ValueError", rows |-> <<>>]
    ELSE IF p.recs = <<>> THEN [status |-> "ValueError", rows |-> <<>>]
    ELSE IF p.shape = "noValueField" THEN [status |-> "KeyError", rows |-> <<>>]
    ELSE IF p.shape = "noTimeAxis" THEN [status |-> "ValueError", rows |-> <<>>]
    ELSE IF SortByDate(DropNaT(LabelledRows(p.recs))) = <<>>
    THEN [status |-> "ValueError", rows |-> <<>>]
    ELSE [status |-> "ok", rows |-> SortByDate(DropNaT(LabelledRows(p.recs)))]

\* _transform_to_tidy_data(json_data)
TransformToTidy(p) ==
    IF p.shape = "noStatData" THEN [status |-> "ValueError", rows |-> <<>>]
    ELSE IF p.recs = <<>> THEN [status |-> "ValueError", rows |-> <<>>]
    ELSE IF p.shape = "noValueField" THEN [status |-> "KeyError", rows |-> <<>>]
    ELSE IF p.shape = "noTimeAxis" THEN [status |-> "ValueError", rows |-> <<>>]
    ELSE [status |-> "ok", rows |-> SortByDate(DropNaT(LabelledRows(p.recs)))]

InitTidy ==
    /\ dlabel = IdleLabel
    /\ dres = Pending
    /\ raw \in Payloads
    /\ tidy = [status |-> "pending", rows |-> <<>>]
    /\ wideIn = IdleWideIn
    /\ wide = IdleWide
    /\ EngineIdle

\* One call _transform_to_tidy_data(raw).
Transform ==
    /\ tidy.status = "pending"
    /\ tidy' = TransformToTidy(raw)
    /\ UNCHANGED <<dlabel, dres, raw, wideIn, wide, engineVars, reqVars>>

NextTidy == Transform

SpecTidy == InitTidy /\ [][NextTidy]_vars

\* ------------------------------------------------------- C3, C7, C8

TidyDone == tidy.status \notin {"idle", "pending"}

\* The date the label of record i parses to.
ParsedDate(i) == parse_date_robust(TimeLabel(raw.recs[i].time))

NoDateParses == \A i \in 1..Len(raw.recs) : ParsedDate(i) = NaT

C7_DateFailureLocal ==
    (TidyDone /\ raw.shape = "ok" /\ raw.recs # <<>>) =>
        /\ tidy.status = "ok"
        /\ \A i \in 1..Len(raw.recs) :
            ParsedDate(i) # NaT =>
                Cardinality({k \in 1..Len(tidy.rows) : tidy.rows[k].src = i}) = 1
        /\ \A k \in 1..Len(tidy.rows) :
            /\ tidy.rows[k].src \in 1..Len(raw.recs)
            /\ ParsedDate(tidy.rows[k].src) # NaT
            /\ tidy.rows[k].date = ParsedDate(tidy.rows[k].src)
            /\ tidy.rows[k].cat = CatLabel(raw.recs[tidy.rows[k].src].cat)
        /\ \A k \in 1..(Len(tidy.rows) - 1) :
            DateLE(tidy.rows[k].date, tidy.rows[k + 1].date)

\* February, an unparseable quarter label, January: the two dated records
\* come back, January first.
C7_Witness ==
    /\ Len(raw.recs) = 3
    /\ raw.recs[1].time = CodeFeb
    /\ raw.recs[2].time = CodeQuarter
    /\ raw.recs[3].time = CodeJan
    /\ tidy.status = "ok"
    /\ Len(tidy.rows) = 2
    /\ tidy.rows[1].src = 3
    /\ tidy.rows[2].src = 1

\* C8 as stated: no row of the returned table has a null value or a null
\* date.
C8_Original ==
    tidy.status = "ok" =>
        \A k \in 1..Len(tidy.rows) :
            tidy.rows[k].value # Null /\ tidy.rows[k].date # NaT

\* C8 as amended: a non-numeric raw value is coerced to null without an
\* error, and no row of the returned table has a null date; a row with a
\* null value is kept when its date parsed.
C8_NullValueKept ==
    (TidyDone /\ raw.shape = "ok" /\ raw.recs # <<>>) =>
        /\ tidy.status = "ok"
        /\ \A k \in 1..Len(tidy.rows) : tidy.rows[k].date # NaT
        /\ \A i \in 1..Len(raw.recs) :
            ParsedDate(i) # NaT =>
                \E k \in 1..Len(tidy.rows) :
                    /\ tidy.rows[k].src = i
                    /\ tidy.rows[k].value =
                         (IF raw.recs[i].val = <<"1", "0">> THEN Rat(10, 1) ELSE Null)

\* A record with the missing-value mark and a good date is in the table.
C8_Witness ==
    /\ tidy.status = "ok"
    /\ \E k \in 1..Len(tidy.rows) :
        /\ tidy.rows[k].value = Null
        /\ raw.recs[tidy.rows[k].src].val = <<"-">>

\* ------------------------------------------------------------ WideProjector

\* y * 12 + (m - 1): the calendar month of a date, counted.
MonthOrd(dt) == dt.y * 12 + (dt.m - 1)

\* The dates of set S in ascending order.
RECURSIVE SortDates(_)
SortDates(S) ==
    IF S = {} THEN <<>>
    ELSE LET lo == CHOOSE a \in S : \A b \in S : DateLE(a, b)
         IN  <<lo>> \o SortDates(S \ {lo})

\* The order pandas gives the category labels (sorted).
CatOrder == <<"A", "B">>

RECURSIVE SelectCats(_, _)
SelectCats(cs, S) ==
    IF cs = <<>> THEN <<>>
    ELSE IF Head(cs) \in S THEN <<Head(cs)>> \o SelectCats(Tail(cs), S)
    ELSE SelectCats(Tail(cs), S)

\* The values of the rows with date dt and category c, in row order.
RECURSIVE GroupValues(_, _, _)
GroupValues(rows, dt, c) ==
    IF rows = <<>> THEN <<>>
    ELSE IF Head(rows).date = dt /\ Head(rows).cat = c
         THEN <<Head(rows).value>> \o GroupValues(Tail(rows), dt, c)
         ELSE GroupValues(Tail(rows), dt, c)

\* The (date, category) groups whose mean is a number: pivot_table drops a
\* group whose values are all null.
LiveGroups(rows) ==
    { g \in { <<rows[i].date, rows[i].cat>> : i \in 1..Len(rows) } :
        Mean(GroupValues(rows, g[1], g[2])) # Null }

\* df.pivot_table(index="date", columns=cat, values="value", aggfunc="mean")
\* followed by sort_index().
PivotTable(rows) ==
    LET live == LiveGroups(rows)
        idx == SortDates({g[1] : g \in live})
        cols == SelectCats(CatOrder, {g[2] : g \in live})
    IN  [index |-> idx,
         columns |-> cols,
         cells |-> [r \in 1..Len(idx) |->
                      [c \in 1..Len(cols) |-> Mean(GroupValues(rows, idx[r], cols[c]))]]]

\* The index left in input order.
WideSortIndex_Unsorted(rows) == rows

\* sort_index() of the table indexed by date.
WideSortIndex(rows) == SortByDate(rows)

\* df.set_index("date")[["value"]].sort_index(), the column named "value".
SingleColumn(rows) ==
    LET sorted == WideSortIndex(rows)
    IN  [index |-> [r \in 1..Len(sorted) |-> sorted[r].date],
         columns |-> <<"value">>,
         cells |-> [r \in 1..Len(sorted) |-> <<sorted[r].value>>]]

\* Column c of the cells, top to bottom.
Column(cells, c) == [r \in 1..Len(cells) |-> cells[r][c]]

\* The cells whose columns are the sequences cols.
FromColumns(cols, nrows) ==
    [r \in 1..nrows |-> [c \in 1..Len(cols) |-> cols[c][r]]]

Before(col, i) == {j \in 1..(i - 1) : col[j] # Null}
After(col, i) == {j \in (i + 1)..Len(col) : col[j] # Null}

Max(S) == CHOOSE a \in S : \A b \in S : b <= a
Min(S) == CHOOSE a \in S : \A b \in S : a <= b

\* interpolate(method="linear", limit_direction="both") on one column: the
\* rows count as equally spaced; a null between two numbers lies on the line
\* through them, a null before the first or after the last number takes that
\* number.
InterpolateBoth(col) ==
    [i \in 1..Len(col) |->
        IF col[i] # Null THEN col[i]
        ELSE IF Before(col, i) # {} /\ After(col, i) # {}
        THEN LET p == Max(Before(col, i))
                 q == Min(After(col, i))
             IN  RatLerp(col[p], col[q], i - p, q - p)
        ELSE IF Before(col, i) # {} THEN col[Max(Before(col, i))]
        ELSE IF After(col, i) # {} THEN col[Min(After(col, i))]
        ELSE Null]

\* fillna(method="bfill")
Bfill(col) ==
    [i \in 1..Len(col) |->
        IF col[i] # Null \/ After(col, i) = {} THEN col[i] ELSE col[Min(After(col, i))]]

\* fillna(method="ffill")
Ffill(col) ==
    [i \in 1..Len(col) |->
        IF col[i] # Null \/ Before(col, i) = {} THEN col[i] ELSE col[Max(Before(col, i))]]

\* The gap filling of to_wide_format, column by column.
FillGaps(t) ==
    [t EXCEPT !.cells =
        FromColumns([c \in 1..Len(t.columns) |->
                        Ffill(Bfill(InterpolateBoth(Column(t.cells, c))))],
                    Len(t.index))]

EmptyFrame == [index |-> <<>>, columns |-> <<>>, cells |-> <<>>]

\* to_wide_format(df, columns_col=...): df has the date and value columns;
\* hasCat says whether it has the category column.
to_wide_format(df) ==
    IF df.rows = <<>> THEN EmptyFrame
    ELSE IF ~df.hasCat THEN FillGaps(SingleColumn(df.rows))
    ELSE FillGaps(PivotTable(df.rows))

WideDates == {MkDate(2023, 1, 1), MkDate(2023, 2, 1), MkDate(2023, 4, 1)}

WideValues == {Rat(10, 1), Rat(12, 1), Null}

\* A tidy table: rows of the date, the category label and the value.  The
\* category of a table without the category column is not read.
TidyTables ==
    [hasCat : {TRUE},
     rows : SeqsUpTo([date : WideDates, cat : {"A", "B"}, value : WideValues], MaxTidyRows)]
        \cup [hasCat : {FALSE},
              rows : SeqsUpTo([date : WideDates, cat : {"A"}, value : WideValues], MaxTidyRows)]

InitWide ==
    /\ dlabel = IdleLabel
    /\ dres = Pending
    /\ raw = IdleRaw
    /\ tidy = IdleTidy
    /\ wideIn \in TidyTables
    /\ wide = [status |-> "pending"] @@ EmptyFrame
    /\ EngineIdle

\* One call to_wide_format(wideIn).
ToWide ==
    /\ wide.status = "pending"
    /\ wide' = [status |-> "ok"] @@ to_wide_format(wideIn)
    /\ UNCHANGED <<dlabel, dres, raw, tidy, wideIn, engineVars, reqVars>>

NextWide == ToWide

SpecWide == InitWide /\ [][NextWide]_vars

\* ------------------------------------------------------------ C2

WideDone == wide.status = "ok"

NoNullCell ==
    \A r \in 1..Len(wide.cells) : \A c \in 1..Len(wide.cells[r]) : wide.cells[r][c] # Null

\* Date b is exactly one month after date a.
OneMonthAfter(a, b) == MonthOrd(b) = MonthOrd(a) + 1 /\ b.d = a.d

\* C2 as stated: for a non-empty tidy input the returned index is strictly
\* increasing, its consecutive entries are exactly one month apart, and no
\* cell is null.
C2_Original ==
    (WideDone /\ wideIn.rows # <<>>) =>
        /\ \A r \in 1..(Len(wide.index) - 1) :
            /\ DateLT(wide.index[r], wide.index[r + 1])
            /\ OneMonthAfter(wide.index[r], wide.index[r + 1])
        /\ NoNullCell

\* C2 as amended: for a non-empty tidy input the returned index is sorted
\* ascending and holds only dates of the input (no month is inserted); with a
\* category column it is strictly increasing and no cell is null; without one
\* it has one entry per input row, and no cell is null unless every value of
\* the input is null.
C2_SortedFilled ==
    (WideDone /\ wideIn.rows # <<>>) =>
        /\ \A r \in 1..(Len(wide.index) - 1) : DateLE(wide.index[r], wide.index[r + 1])
        /\ \A r \in 1..Len(wide.index) :
            \E i \in 1..Len(wideIn.rows) : wideIn.rows[i].date = wide.index[r]
        /\ \A r \in 1..Len(wide.cells) : Len(wide.cells[r]) = Len(wide.columns)
        /\ Len(wide.cells) = Len(wide.index)
        /\ wideIn.hasCat =>
            /\ \A r \in 1..(Len(wide.index) - 1) : DateLT(wide.index[r], wide.index[r + 1])
            /\ NoNullCell
        /\ ~wideIn.hasCat =>
            /\ Len(wide.index) = Len(wideIn.rows)
            /\ NoNullCell \/ \A i \in 1..Len(wideIn.rows) : wideIn.rows[i].value = Null

\* Three dates and two categories out of three rows given out of date order:
\* three of the six cells were gaps, and the index jumps from February to
\* April.
C2_Witness ==
    /\ WideDone
    /\ wideIn.hasCat
    /\ Len(wideIn.rows) = 3
    /\ wideIn.rows[1].date = MkDate(2023, 4, 1)
    /\ wide.index = <<MkDate(2023, 1, 1), MkDate(2023, 2, 1), MkDate(2023, 4, 1)>>
    /\ wide.columns = <<"A", "B">>
    /\ NoNullCell

\* ------------------------------------------------------------ C11

\* The input rows of date dt and category c that carry a number.
ValuedRows(dt, c) ==
    {i \in 1..Len(wideIn.rows) :
        /\ wideIn.rows[i].date = dt
        /\ wideIn.rows[i].cat = c
        /\ wideIn.rows[i].value # Null}

\* The category labels of the input, and those with at least one number.
InputLabels == {wideIn.rows[i].cat : i \in 1..Len(wideIn.rows)}
ValuedLabels ==
    {wideIn.rows[i].cat : i \in {j \in 1..Len(wideIn.rows) : wideIn.rows[j].value # Null}}

\* The returned table has exactly the columns L, each once.
ColumnsAre(L) ==
    /\ {wide.columns[c] : c \in 1..Len(wide.columns)} = L
    /\ Len(wide.columns) = Cardinality(L)

\* v times the number of the numbers vs equals their sum.
IsMeanOf(v, vs) ==
    /\ v # Null
    /\ v.n * RatSum(vs).d * Len(vs) = RatSum(vs).n * v.d

\* Every (date, category) pair with a number has a cell, and the cell is the
\* mean of the numbers of the pair.
CellsAreMeans ==
    \A i \in 1..Len(wideIn.rows) :
        wideIn.rows[i].value # Null =>
            \E r \in 1..Len(wide.index) : \E c \in 1..Len(wide.columns) :
                /\ wide.index[r] = wideIn.rows[i].date
                /\ wide.columns[c] = wideIn.rows[i].cat
                /\ IsMeanOf(wide.cells[r][c],
                            NonNull(GroupValues(wideIn.rows, wide.index[r], wide.columns[c])))

\* The rows of column c whose pair has a number in the input.
KnownRows(c) ==
    {j \in 1..Len(wide.index) : ValuedRows(wide.index[j], wide.columns[c]) # {}}

\* v lies on the line from a (k rows above) to b (m - k rows below).
OnLine(v, a, b, k, m) ==
    /\ v # Null
    /\ v.n * m * a.d * b.d = v.d * (a.n * b.d * (m - k) + b.n * a.d * k)

\* A cell whose pair has no number: between two known rows of its column it
\* lies on the line through them (rows equally spaced); before the first or
\* after the last known row it equals the nearest known cell.
GapsAreFilled ==
    \A r \in 1..Len(wide.index) : \A c \in 1..Len(wide.columns) :
        ValuedRows(wide.index[r], wide.columns[c]) = {} =>
            LET above == {j \in KnownRows(c) : j < r}
                below == {j \in KnownRows(c) : j > r}
            IN  /\ above \cup below # {}
                /\ (above # {} /\ below # {}) =>
                       OnLine(wide.cells[r][c], wide.cells[Max(above)][c],
                              wide.cells[Min(below)][c], r - Max(above),
                              Min(below) - Max(above))
                /\ (above # {} /\ below = {}) => wide.cells[r][c] = wide.cells[Max(above)][c]
                /\ (above = {} /\ below # {}) => wide.cells[r][c] = wide.cells[Min(below)][c]

\* C11 as stated: with a category column the table has one column for each
\* distinct category label of the input, the cell of every pair with a value
\* is the mean of the values of the pair, and the other cells are filled by
\* linear interpolation (interior) or the nearest known value (leading,
\* trailing).
C11_Original ==
    (WideDone /\ wideIn.hasCat /\ wideIn.rows # <<>>) =>
        /\ ColumnsAre(InputLabels)
        /\ CellsAreMeans
        /\ GapsAreFilled

\* C11 as amended: with a category column the table has one column for each
\* category label that has at least one non-null value in the input (a label
\* whose values are all null gets no column); the cell of every pair with a
\* non-null value is the mean of the non-null values of the pair; the other
\* cells are filled by linear interpolation over row positions (interior) or
\* the nearest known value of the column (leading, trailing).
C11_MeanAndFill ==
    (WideDone /\ wideIn.hasCat /\ wideIn.rows # <<>>) =>
        /\ ColumnsAre(ValuedLabels)
        /\ CellsAreMeans
        /\ GapsAreFilled

\* The scenario of the specification: A twice on 2023-01 with 10 and 12, B
\* on 2023-02; A is 11 on 2023-01 and, a trailing gap, 11 on 2023-02.
C11_Witness ==
    /\ WideDone
    /\ wideIn.hasCat
    /\ wideIn.rows =
           <<[date |-> MkDate(2023, 1, 1), cat |-> "A", value |-> Rat(10, 1)],
             [date |-> MkDate(2023, 1, 1), cat |-> "A", value |-> Rat(12, 1)],
             [date |-> MkDate(2023, 2, 1), cat |-> "B", value |-> Rat(10, 1)]>>
    /\ wide.index = <<MkDate(2023, 1, 1), MkDate(2023, 2, 1)>>
    /\ wide.columns = <<"A", "B">>
    /\ wide.cells = <<<<Rat(11, 1), Rat(10, 1)>>, <<Rat(11, 1), Rat(10, 1)>>>>

\* --------------------------------------------------------- EconometricEngine

\* The first day of the month counted k.
MonthStart(k) == MkDate(k \div 12, (k % 12) + 1, 1)

\* The values observed in the month counted k, in the order of obs.
RECURSIVE MonthValues(_, _)
MonthValues(obs, k) ==
    IF obs = <<>> THEN <<>>
    ELSE IF MonthOrd(Head(obs).date) = k
         THEN <<Head(obs).value>> \o MonthValues(Tail(obs), k)
         ELSE MonthValues(Tail(obs), k)

\* resample('MS').mean() of the date-sorted obs: one bin per month from the
\* first month to the last, labelled with the first of the month; the mean of
\* a bin skips nulls, and a bin with no number is null.
ResampleMS(obs) ==
    LET lo == MonthOrd(obs[1].date)
        hi == MonthOrd(obs[Len(obs)].date)
    IN  [i \in 1..(hi - lo + 1) |->
            [date |-> MonthStart(lo + i - 1),
             value |-> Mean(MonthValues(obs, lo + i - 1))]]

\* interpolate(method='linear'): limit_direction is left at its default,
\* forward.  A null between two numbers lies on the line through them, a null
\* after the last number takes that number, a null before the first number
\* stays null.
InterpolateForward(col) ==
    [i \in 1..Len(col) |->
        IF col[i] # Null THEN col[i]
        ELSE IF Before(col, i) # {} /\ After(col, i) # {}
        THEN LET p == Max(Before(col, i))
                 q == Min(After(col, i))
             IN  RatLerp(col[p], col[q], i - p, q - p)
        ELSE IF Before(col, i) # {} THEN col[Max(Before(col, i))]
        ELSE Null]

\* The interpolated values put back on the dates of series ser.
WithValues(ser, col) ==
    [i \in 1..Len(ser) |-> [date |-> ser[i].date, value |-> col[i]]]

\* A validation without the emptiness check: an empty input passes through.
validate_and_set_freq_NoEmptyCheck(data) ==
    IF data = <<>> THEN [status |-> "ok", series |-> <<>>]
    ELSE LET monthly == ResampleMS(SortByDate(data))
         IN  [status |-> "ok",
              series |-> WithValues(monthly,
                             InterpolateForward([i \in 1..Len(monthly) |-> monthly[i].value]))]

\* _validate_and_set_freq(data, name) on a date-indexed series: the emptiness
\* check, the sort, the monthly resampling and the interpolation.
validate_and_set_freq(data) ==
    IF data = <<>> THEN [status |-> "ValueError", series |-> <<>>]
    ELSE LET monthly == ResampleMS(SortByDate(data))
         IN  [status |-> "ok",
              series |-> WithValues(monthly,
                             InterpolateForward([i \in 1..Len(monthly) |-> monthly[i].value]))]

\* EconometricEngine.__init__(target_series, exog_series): the instance, or
\* the error that leaves none.
EngineInit(args) ==
    LET yv == validate_and_set_freq(args.target)
        xv == validate_and_set_freq(args.exog.obs)
    IN  IF yv.status # "ok" THEN [status |-> yv.status, engine |-> NoEngine]
        ELSE IF args.exog.given /\ xv.status # "ok"
        THEN [status |-> xv.status, engine |-> NoEngine]
        ELSE [status |-> "ok",
              engine |-> [alive |-> TRUE,
                          y |-> yv.series,
                          exog |-> IF args.exog.given THEN xv.series ELSE <<>>,
                          model |-> NoModel]]

\* A guard that never reports the model missing.
ModelMissing_Never(e) == FALSE

\* self.model is None
ModelMissing(e) == ~e.model.fitted

\* pd.date_range(start, periods, freq='MS'): the month starts from start on,
\* start itself when it is one.
DateRangeMS(start, periods) ==
    LET first == IF start.d = 1 THEN MonthOrd(start) ELSE MonthOrd(start) + 1
    IN  [i \in 1..periods |-> MonthStart(first + i - 1)]

\* The anchors from the last date on, the first one kept and one too few made.
FutureDates_KeepFirst(last, n) == DateRangeMS(last, n)

\* pd.date_range(start=last_date, periods=n_periods + 1, freq='MS')[1:]
FutureDates(last, n) == Tail(DateRangeMS(last, n + 1))

\* strftime('%Y-%m-%d')
Strftime(dt) ==
    ZeroPad(dt.y, 4) \o <<"-">> \o ZeroPad(dt.m, 2) \o <<"-">> \o ZeroPad(dt.d, 2)

\* The p-values the Ljung-Box test may report.
PValues == {Rat(1, 100), Rat(5, 100), Rat(1, 2)}

\* The 0.05 of the white-noise flag.
Alpha == Rat(5, 100)

\* The point forecasts and bounds of model.predict(n_periods=n): n of each.
\* Their values are the library's and are not modelled.
ForecastValues(n) == [i \in 1..n |-> 0]

Outcome(op, status) == [NoCall EXCEPT !.op = op, !.status = status]

\* EconometricEngine(target_series, exog_series)
Construct ==
    /\ call.op = "none"
    /\ call' = Outcome("construct", EngineInit(engIn).status)
    /\ engine' = EngineInit(engIn).engine
    /\ UNCHANGED <<engIn, fitDone, fitRaised, estatVars, reqVars>>

\* engine.fit(): pm.auto_arima returns a model, which is stored.
FitOk ==
    /\ engine.alive
    /\ engine' = [engine EXCEPT !.model = [fitted |-> TRUE, nobs |-> Len(engine.y)]]
    /\ call' = Outcome("fit", "ok")
    /\ fitDone' = TRUE
    /\ UNCHANGED <<engIn, fitRaised, estatVars, reqVars>>

\* engine.fit(): pm.auto_arima raises; self.model is not assigned.
FitRaises ==
    /\ engine.alive
    /\ call' = Outcome("fit", "Error")
    /\ fitRaised' = TRUE
    /\ UNCHANGED <<engIn, engine, fitDone, estatVars, reqVars>>

\* A diagnosis that runs the test at lag 12 from 12 residuals on.
diagnose_LagFromTwelve(e, pv) ==
    IF ModelMissing(e) THEN Outcome("diagnose", "ModelNotFitted")
    ELSE [Outcome("diagnose", "ok") EXCEPT
             !.lags = IF e.model.nobs >= 12 THEN 12 ELSE 1,
             !.pvalue = pv,
             !.white = RatLT(Alpha, pv)]

\* diagnose(): the error, or the Ljung-Box result for the p-value pv the test
\* reports; lag 12 when there are more than 12 residuals, lag 1 otherwise.
diagnose(e, pv) ==
    IF ModelMissing(e) THEN Outcome("diagnose", "ModelNotFitted")
    ELSE [Outcome("diagnose", "ok") EXCEPT
             !.lags = IF e.model.nobs > 12 THEN 12 ELSE 1,
             !.pvalue = pv,
             !.white = RatLT(Alpha, pv)]

\* predict(n_periods=n): the error, or the n forecast points.  The log line
\* future_dates[0] fails when there is no future date.
predict(e, n) ==
    IF ModelMissing(e) THEN [Outcome("predict", "ModelNotFitted") EXCEPT !.n = n]
    ELSE LET dates == FutureDates(e.y[Len(e.y)].date, n)
         IN  IF dates = <<>> THEN [Outcome("predict", "IndexError") EXCEPT !.n = n]
             ELSE [Outcome("predict", "ok") EXCEPT
                      !.n = n,
                      !.index = [i \in 1..Len(dates) |-> Strftime(dates[i])],
                      !.mean = ForecastValues(n),
                      !.lower = ForecastValues(n),
                      !.upper = ForecastValues(n)]

\* engine.diagnose()
Diagnose ==
    /\ engine.alive
    /\ \E pv \in PValues : call' = diagnose(engine, pv)
    /\ UNCHANGED <<engIn, engine, fitDone, fitRaised, estatVars, reqVars>>

\* engine.predict(n_periods=n)
Predict ==
    /\ engine.alive
    /\ \E n \in 0..MaxHorizon : call' = predict(engine, n)
    /\ UNCHANGED <<engIn, engine, fitDone, fitRaised, estatVars, reqVars>>

EstatIdle ==
    /\ dlabel = IdleLabel
    /\ dres = Pending
    /\ raw = IdleRaw
    /\ tidy = IdleTidy
    /\ wideIn = IdleWideIn
    /\ wide = IdleWide

Obs(yy, mm, dd, v) == [date |-> MkDate(yy, mm, dd), value |-> v]

\* Constructor arguments: series in any order, with two dates in one month, a
\* month without a date and null values; no exogenous table, an empty one, or
\* one with an observation.
EngDates == {MkDate(2023, 1, 1), MkDate(2023, 1, 15), MkDate(2023, 3, 1)}

EngValues == {Rat(10, 1), Rat(20, 1), Null}

ExogArgs ==
    {NoExog,
     [given |-> TRUE, obs |-> <<>>],
     [given |-> TRUE, obs |-> <<Obs(2023, 1, 1, Rat(10, 1))>>]}

ConstructArgs ==
    [target : SeqsUpTo([date : EngDates, value : EngValues], MaxObs), exog : ExogArgs]

InitConstruct ==
    /\ EstatIdle
    /\ ReqIdle
    /\ engIn \in ConstructArgs
    /\ engine = NoEngine
    /\ call = NoCall
    /\ fitDone = FALSE
    /\ fitRaised = FALSE

NextConstruct == Construct

SpecConstruct == InitConstruct /\ [][NextConstruct]_vars

\* The series the lifecycle is run on: none, one month, a series ending in
\* the middle of December, and series of 12 and 13 months after resampling.
LifecycleArgs ==
    [target : {<<>>,
               <<Obs(2023, 11, 1, Rat(10, 1))>>,
               <<Obs(2023, 12, 15, Rat(20, 1)), Obs(2023, 10, 1, Rat(10, 1))>>,
               <<Obs(2022, 12, 1, Rat(10, 1)), Obs(2023, 11, 1, Rat(20, 1))>>,
               <<Obs(2022, 11, 1, Rat(10, 1)), Obs(2023, 11, 1, Rat(20, 1))>>},
     exog : ExogArgs]

InitEngine ==
    /\ EstatIdle
    /\ ReqIdle
    /\ engIn \in LifecycleArgs
    /\ engine = NoEngine
    /\ call = NoCall
    /\ fitDone = FALSE
    /\ fitRaised = FALSE

NextEngine == Construct \/ FitOk \/ FitRaises \/ Diagnose \/ Predict

SpecEngine == InitEngine /\ [][NextEngine]_vars

\* ------------------------------------------------------- C1, C5, C9, C10

\* C1: diagnose and predict fail with the model-not-fitted error exactly when
\* no fit call on the instance has returned before them, and return nothing
\* then; a fit that raises does not make the engine fitted, and after a fit
\* that returned they never fail that way.
C1_NotFittedIffNoFit ==
    /\ call.op \in {"diagnose", "predict"} =>
        /\ call.status = "ModelNotFitted" <=> ~fitDone
        /\ call.status = "ModelNotFitted" =>
            /\ call.index = <<>>
            /\ call.mean = <<>>
            /\ call.pvalue = Null
    /\ engine.alive => (engine.model.fitted <=> fitDone)

\* A fit raised, no fit has returned, and the diagnose after it failed with
\* the model-not-fitted error.
C1_Witness ==
    /\ fitRaised
    /\ ~fitDone
    /\ call.op = "diagnose"
    /\ call.status = "ModelNotFitted"

\* C5: on a fitted engine predict(n) with n >= 1 succeeds and returns
\* exactly n dates, means, lower and upper bounds; the first date is the month
\* start one month after the last date of the engine's series and each later
\* date is the month start one month after the one before it.
C5_ForecastDates ==
    (call.op = "predict" /\ call.n >= 1 /\ fitDone) =>
        /\ call.status = "ok"
        /\ Len(call.index) = call.n
        /\ Len(call.mean) = call.n
        /\ Len(call.lower) = call.n
        /\ Len(call.upper) = call.n
        /\ \A i \in 1..Len(call.index) :
            /\ ToDatetime(call.index[i]) # Raised
            /\ ToDatetime(call.index[i]).d = 1
            /\ OneMonthAfter(IF i = 1 THEN engine.y[Len(engine.y)].date
                                      ELSE ToDatetime(call.index[i - 1]),
                             ToDatetime(call.index[i]))

\* Three months forecast from a series ending in December 2023: January,
\* February and March 2024.
C5_Witness ==
    /\ call.op = "predict"
    /\ call.status = "ok"
    /\ call.n = 3
    /\ engine.y[Len(engine.y)].date = MkDate(2023, 12, 1)
    /\ call.index = <<Strftime(MkDate(2024, 1, 1)), Strftime(MkDate(2024, 2, 1)),
                      Strftime(MkDate(2024, 3, 1))>>

\* The months in which the constructor's target series has an observation.
TargetMonths == {MonthOrd(engIn.target[i].date) : i \in 1..Len(engIn.target)}

\* C9 as stated: after a successful construction the working series is
\* sorted ascending, has exactly one point per calendar month from the first
\* to the last input month, each on the first of its month, a month with
\* observed numbers holds their mean, and no value is null.  (Stated for
\* series that hold at least one number.)
C9_Claim ==
    (engine.alive /\ \E i \in 1..Len(engIn.target) : engIn.target[i].value # Null) =>
        /\ Len(engine.y) = Max(TargetMonths) - Min(TargetMonths) + 1
        /\ \A i \in 1..Len(engine.y) :
            /\ engine.y[i].date = MonthStart(Min(TargetMonths) + i - 1)
            /\ Mean(MonthValues(engIn.target, MonthOrd(engine.y[i].date))) # Null =>
                 engine.y[i].value = Mean(MonthValues(engIn.target, MonthOrd(engine.y[i].date)))
            /\ engine.y[i].value # Null

\* C10: constructing the engine on a target series with no observation, or
\* with an exogenous table with no observation, fails with the empty-dataset
\* error (the ValueError of the code) and leaves no instance, so that no fit,
\* diagnose or predict follows.
C10_EmptyDataset ==
    /\ (call.op = "construct" /\ (engIn.target = <<>> \/ (engIn.exog.given /\ engIn.exog.obs = <<>>))) =>
        /\ call.status = "ValueError"
        /\ ~engine.alive
    /\ (call.op = "construct" /\ engIn.target # <<>> /\ ~(engIn.exog.given /\ engIn.exog.obs = <<>>)) =>
        /\ call.status = "ok"
        /\ engine.alive
    /\ ~engine.alive => call.op \in {"none", "construct"}

\* A target with observations and an empty exogenous table: no instance.
C10_Witness ==
    /\ call.op = "construct"
    /\ call.status = "ValueError"
    /\ engIn.target # <<>>
    /\ engIn.exog = [given |-> TRUE, obs |-> <<>>]
    /\ ~engine.alive

\* ------------------------------------------------------------ C13

\* C13: on a fitted engine diagnose returns; its white-noise flag is exactly
\* (p-value > 0.05), and the test was run at lag 12 when the fitted model has
\* at least 13 residuals and at lag 1 when it has 12 or fewer.
C13_WhiteNoiseFlag ==
    (call.op = "diagnose" /\ fitDone) =>
        /\ call.status = "ok"
        /\ call.white <=> (call.pvalue.n * 100 > 5 * call.pvalue.d)
        /\ Len(engine.y) >= 13 => call.lags = 12
        /\ Len(engine.y) <= 12 => call.lags = 1

\* A model fitted on twelve months, tested at lag 1, with a p-value of
\* exactly 0.05: the flag is off.
C13_Witness ==
    /\ call.op = "diagnose"
    /\ fitDone
    /\ Len(engine.y) = 12
    /\ call.lags = 1
    /\ call.pvalue = Rat(5, 100)
    /\ ~call.white

\* --------------------------------------------------------- forecast endpoint

\* The 24 of the data-sufficiency check.
MinPoints == 24

Requests == {1, 2}

\* n_periods of a request: none, one, two.
Horizons == {0, 1, 2}

RawRec(code) == [time |-> code, val |-> <<"1", "0">>, cat |-> "c1"]

\* n records, one for each month from January 2022 on.
MonthlyRecs(n) ==
    [i \in 1..n |-> RawRec(TimeCode("ym", 2022 + ((i - 1) \div 12), ((i - 1) % 12) + 1, 1))]

\* n records, one for every second month from January 2020 on.
EveryOtherMonthRecs(n) ==
    [i \in 1..n |->
        RawRec(TimeCode("ym", 2020 + ((2 * (i - 1)) \div 12), ((2 * (i - 1)) % 12) + 1, 1))]

\* n records, one for each day from 1 January 2023 on (n <= 31).
DailyRecs(n) == [i \in 1..n |-> RawRec(TimeCode("ymd", 2023, 1, i))]

\* The datasets a request may name.
Datasets ==
    {[kind |-> "monthly", n |-> MinPoints],
     [kind |-> "monthly", n |-> MinPoints - 1],
     [kind |-> "everyOtherMonth", n |-> MinPoints - 1],
     [kind |-> "daily", n |-> MinPoints],
     [kind |-> "quarterly", n |-> 2],
     [kind |-> "noCategoryAxis", n |-> MinPoints],
     [kind |-> "monthly", n |-> 0]}

\* The payload the upstream service returns for a dataset.
PayloadOf(ds) ==
    [shape |-> "ok",
     recs |-> CASE ds.kind = "everyOtherMonth" -> EveryOtherMonthRecs(ds.n)
                [] ds.kind = "daily" -> DailyRecs(ds.n)
                [] ds.kind = "quarterly" -> [i \in 1..ds.n |-> RawRec(CodeQuarter)]
                [] OTHER -> MonthlyRecs(ds.n)]

\* cat_cols: whether a column of the tidy table is named after the item axis.
HasItemColumn(ds) == ds.kind # "noCategoryAxis"

\* wide_df.iloc[:, 0] as a series.
FirstColumn(t) ==
    [r \in 1..Len(t.index) |-> [date |-> t.index[r], value |-> t.cells[r][1]]]

NoResult == Outcome("none", "none")

NewRequest(ds, n) ==
    [pc |-> "start", ds |-> ds, n |-> n, df |-> <<>>, target |-> <<>>, eid |-> 0,
     fit |-> "none", diag |-> NoResult, fc |-> NoResult,
     http |-> 0, err |-> "none", count |-> 0]

Fail(rq, code, why) == [rq EXCEPT !.pc = "done", !.http = code, !.err = why]

InitRequests ==
    /\ EstatIdle
    /\ engIn = IdleEngIn
    /\ engine = NoEngine
    /\ call = NoCall
    /\ fitDone = FALSE
    /\ fitRaised = FALSE
    /\ req \in [Requests -> {NewRequest(ds, n) : ds \in Datasets, n \in Horizons}]
    /\ heap = <<>>

\* await fetch_stats_data(...): the upstream call fails.
FetchFails(r) ==
    /\ req[r].pc = "start"
    /\ req' = [req EXCEPT ![r] = Fail(@, 500, "upstream")]
    /\ UNCHANGED <<heap, estatVars, engineVars>>

\* await fetch_stats_data(...): the payload arrives and is made tidy.
Fetch(r) ==
    /\ req[r].pc = "start"
    /\ LET t == TransformToTidy(PayloadOf(req[r].ds))
       IN  req' = [req EXCEPT ![r] =
                      IF t.status # "ok" THEN Fail(@, 500, t.status)
                      ELSE [@ EXCEPT !.pc = "fetched", !.df = t.rows]]
    /\ UNCHANGED <<heap, estatVars, engineVars>>

\* Lines 105 to 125 of predict_time_series, up to the hand-over to the worker
\* thread: the empty check, the item column, the wide projection and the
\* data-sufficiency check.
Prepare(r) ==
    /\ req[r].pc = "fetched"
    /\ LET w == to_wide_format([hasCat |-> TRUE, rows |-> req[r].df])
       IN  req' = [req EXCEPT ![r] =
                      IF @.df = <<>> THEN Fail(@, 404, "noData")
                      ELSE IF ~HasItemColumn(@.ds) THEN Fail(@, 500, "noItemColumn")
                      ELSE IF w.index = <<>> \/ w.columns = <<>> THEN Fail(@, 404, "emptyWide")
                      ELSE IF Len(FirstColumn(w)) < MinPoints
                      THEN [Fail(@, 400, "insufficientData") EXCEPT
                               !.count = Len(FirstColumn(w)),
                               !.target = FirstColumn(w)]
                      ELSE [@ EXCEPT !.pc = "submitted", !.target = FirstColumn(w)]]
    /\ UNCHANGED <<heap, estatVars, engineVars>>

\* A construction that keeps the engine in one slot shared by all requests.
TaskConstruct_SharedSlot(r) ==
    /\ req[r].pc = "submitted"
    /\ LET made == EngineInit([target |-> req[r].target, exog |-> NoExog])
       IN  IF made.status # "ok"
           THEN /\ req' = [req EXCEPT ![r] = Fail(@, 500, made.status)]
                /\ UNCHANGED heap
           ELSE /\ heap' = IF heap = <<>>
                           THEN <<[inst |-> made.engine, owner |-> r, users |-> {r}]>>
                           ELSE <<[inst |-> made.engine, owner |-> r,
                                   users |-> heap[1].users \cup {r}]>>
                /\ req' = [req EXCEPT ![r] = [@ EXCEPT !.pc = "constructed", !.eid = 1]]
    /\ UNCHANGED <<estatVars, engineVars>>

\* run_analysis_task: engine = EconometricEngine(target_series=target_series)
TaskConstruct(r) ==
    /\ req[r].pc = "submitted"
    /\ LET made == EngineInit([target |-> req[r].target, exog |-> NoExog])
       IN  IF made.status # "ok"
           THEN /\ req' = [req EXCEPT ![r] = Fail(@, 500, made.status)]
                /\ UNCHANGED heap
           ELSE /\ heap' = Append(heap, [inst |-> made.engine, owner |-> r, users |-> {r}])
                /\ req' = [req EXCEPT ![r] = [@ EXCEPT !.pc = "constructed",
                                                       !.eid = Len(heap) + 1]]
    /\ UNCHANGED <<estatVars, engineVars>>

\* run_analysis_task: engine.fit(seasonal=True, m=12) returns.
TaskFitOk(r) ==
    /\ req[r].pc = "constructed"
    /\ heap' = [heap EXCEPT ![req[r].eid] =
                   [@ EXCEPT !.inst.model =
                                 [fitted |-> TRUE, nobs |-> Len(heap[req[r].eid].inst.y)],
                             !.users = @ \cup {r}]]
    /\ req' = [req EXCEPT ![r] = [@ EXCEPT !.pc = "fitted", !.fit = "ok"]]
    /\ UNCHANGED <<estatVars, engineVars>>

\* A fit whose exception is swallowed: the task goes on to diagnose.
TaskFitRaises_Swallowed(r) ==
    /\ req[r].pc = "constructed"
    /\ heap' = [heap EXCEPT ![req[r].eid] = [@ EXCEPT !.users = @ \cup {r}]]
    /\ req' = [req EXCEPT ![r] = [@ EXCEPT !.pc = "fitted", !.fit = "raised"]]
    /\ UNCHANGED <<estatVars, engineVars>>

\* run_analysis_task: engine.fit(seasonal=True, m=12) raises.
TaskFitRaises(r) ==
    /\ req[r].pc = "constructed"
    /\ heap' = [heap EXCEPT ![req[r].eid] = [@ EXCEPT !.users = @ \cup {r}]]
    /\ req' = [req EXCEPT ![r] = [Fail(@, 500, "fit") EXCEPT !.fit = "raised"]]
    /\ UNCHANGED <<estatVars, engineVars>>

\* run_analysis_task: diagnosis = engine.diagnose()
TaskDiagnose(r) ==
    /\ req[r].pc = "fitted"
    /\ \E pv \in PValues :
        LET d == diagnose(heap[req[r].eid].inst, pv)
        IN  req' = [req EXCEPT ![r] =
                       IF d.status # "ok" THEN [Fail(@, 500, d.status) EXCEPT !.diag = d]
                       ELSE [@ EXCEPT !.pc = "diagnosed", !.diag = d]]
    /\ heap' = [heap EXCEPT ![req[r].eid] = [@ EXCEPT !.users = @ \cup {r}]]
    /\ UNCHANGED <<estatVars, engineVars>>

\* run_analysis_task: forecast = engine.predict(n_periods=n_periods)
TaskPredict(r) ==
    /\ req[r].pc = "diagnosed"
    /\ LET f == predict(heap[req[r].eid].inst, req[r].n)
       IN  req' = [req EXCEPT ![r] =
                      IF f.status # "ok" THEN [Fail(@, 500, f.status) EXCEPT !.fc = f]
                      ELSE [@ EXCEPT !.pc = "predicted", !.fc = f]]
    /\ heap' = [heap EXCEPT ![req[r].eid] = [@ EXCEPT !.users = @ \cup {r}]]
    /\ UNCHANGED <<estatVars, engineVars>>

\* The task's result is awaited and the success response is returned.
Respond(r) ==
    /\ req[r].pc = "predicted"
    /\ req' = [req EXCEPT ![r] = [@ EXCEPT !.pc = "done", !.http = 200]]
    /\ UNCHANGED <<heap, estatVars, engineVars>>

Next ==
    \E r \in Requests :
        \/ FetchFails(r)
        \/ Fetch(r)
        \/ Prepare(r)
        \/ TaskConstruct(r)
        \/ TaskFitOk(r)
        \/ TaskFitRaises(r)
        \/ TaskDiagnose(r)
        \/ TaskPredict(r)
        \/ Respond(r)

Spec == InitRequests /\ [][Next]_vars

\* The number of points of the normalised monthly history the engine would
\* fit on for a request that reached the data-sufficiency check.
NormalizedCount(r) == Len(validate_and_set_freq(req[r].target).series)

\* C4: a request whose normalised monthly history has fewer than 24
\* observations is rejected as insufficient data with that count and no fit
\* is started for it; a request whose normalised history has 24 or more
\* observations is not rejected for that reason.
C4_Claim ==
    \A r \in Requests :
        req[r].target # <<>> =>
            /\ NormalizedCount(r) < MinPoints =>
                   /\ req[r].err = "insufficientData"
                   /\ req[r].count = NormalizedCount(r)
                   /\ req[r].eid = 0
                   /\ req[r].fit = "none"
            /\ NormalizedCount(r) >= MinPoints => req[r].err # "insufficientData"

\* C12: a request with n_periods below 1 is rejected as invalid: no model
\* search is run for it and it gets no success response.
C12_Claim ==
    \A r \in Requests :
        req[r].n < 1 =>
            /\ req[r].fit = "none"
            /\ req[r].http # 200

\* ------------------------------------------------------------ C14

\* The normalised series the engine of request r is bound to.
OwnSeries(r) == validate_and_set_freq(req[r].target).series

\* C14: whatever the interleaving of the requests, every engine instance is
\* constructed by one request and touched by that request only, no two
\* requests hold the same instance, the instance a request holds is bound to
\* that request's own series, and the forecast a request gets is made by a
\* model fitted on that series (its dates follow the series' last month).
C14_EnginePrivate ==
    /\ \A i \in 1..Len(heap) : heap[i].users = {heap[i].owner}
    /\ \A r \in Requests :
        req[r].eid # 0 =>
            LET own == OwnSeries(r)
                held == heap[req[r].eid]
            IN  /\ req[r].eid \in 1..Len(heap)
                /\ held.owner = r
                /\ held.inst.y = own
                /\ held.inst.model.fitted =>
                       /\ req[r].fit = "ok"
                       /\ held.inst.model.nobs = Len(own)
                /\ req[r].fc.status = "ok" =>
                       /\ held.inst.model.fitted
                       /\ req[r].fc.index[1] =
                              Strftime(MonthStart(MonthOrd(own[Len(own)].date) + 1))
    /\ \A r1, r2 \in Requests :
        (r1 # r2 /\ req[r1].eid # 0) => req[r1].eid # req[r2].eid

\* Two requests on different series in flight together: request 2 built its
\* engine first and is still between fit and diagnose when request 1, on the
\* later-built engine, has its forecast.
C14_Witness ==
    /\ Len(heap) = 2
    /\ req[2].eid = 1
    /\ req[1].eid = 2
    /\ req[1].ds.kind = "monthly"
    /\ req[2].ds.kind = "daily"
    /\ req[2].pc = "fitted"
    /\ req[1].fc.status = "ok"
    /\ req[1].fc.index[1] = Strftime(MkDate(2024, 1, 1))

\* ------------------------------------------------------------ C15

\* The position of a request in the fixed order of its steps.
StepRank(pc) ==
    CASE pc = "start" -> 0
      [] pc = "fetched" -> 1
      [] pc = "submitted" -> 2
      [] pc = "constructed" -> 3
      [] pc = "fitted" -> 4
      [] pc = "diagnosed" -> 5
      [] pc = "predicted" -> 6
      [] pc = "done" -> 7

\* What a request at each position has behind it, and nothing more.
StepsInOrder(r) ==
    LET k == StepRank(req[r].pc)
        ended == req[r].pc = "done"
    IN  /\ (req[r].eid # 0) => (req[r].target # <<>> /\ Len(req[r].target) >= MinPoints)
        /\ (req[r].fit # "none") => req[r].eid # 0
        /\ (req[r].diag.op # "none") => req[r].fit = "ok"
        /\ (req[r].fc.op # "none") => req[r].diag.status = "ok"
        /\ (~ended /\ k >= 2) => req[r].target # <<>>
        /\ (~ended /\ k >= 3) => req[r].eid # 0
        /\ (~ended /\ k >= 4) => req[r].fit = "ok"
        /\ (~ended /\ k >= 5) => req[r].diag.status = "ok"
        /\ (~ended /\ k >= 6) => req[r].fc.status = "ok"
        /\ (~ended) => (req[r].http = 0 /\ req[r].err = "none")

\* How a request ends: with a success response after a completed fit,
\* diagnosis and forecast, or with an error, never the model-not-fitted one,
\* and with every step after the failed one not run.
EndsProperly(r) ==
    req[r].pc = "done" =>
        /\ req[r].http \in {200, 400, 404, 500}
        /\ req[r].err # "ModelNotFitted"
        /\ req[r].diag.status # "ModelNotFitted"
        /\ req[r].fc.status # "ModelNotFitted"
        /\ (req[r].http = 200) <=> (req[r].err = "none")
        /\ (req[r].http = 200) =>
               /\ req[r].fit = "ok"
               /\ req[r].diag.status = "ok"
               /\ req[r].fc.status = "ok"
        /\ (req[r].fit = "raised") => (req[r].diag.op = "none" /\ req[r].fc.op = "none")
        /\ (req[r].diag.op # "none" /\ req[r].diag.status # "ok") => req[r].fc.op = "none"

\* A step of a request moves it to the next position or, on a failure, to
\* the end; an ended request does not move.
MovesForward(r) ==
    \/ req'[r] = req[r]
    \/ /\ req[r].pc # "done"
       /\ \/ StepRank(req'[r].pc) = StepRank(req[r].pc) + 1
          \/ req'[r].pc = "done" /\ req'[r].http # 200

\* C15: the steps of a request occur in the fixed order fetch/transform, wide
\* projection and data-sufficiency check, engine construction, fit,
\* diagnose, predict, response; diagnose and predict run only after fit has
\* returned; a failure at any step ends the request with an error and skips
\* the later steps; no request ends with the model-not-fitted error or gets
\* a success response without a completed fit, diagnosis and forecast.
C15_StepOrder ==
    /\ [](\A r \in Requests : StepsInOrder(r) /\ EndsProperly(r))
    /\ [][\A r \in Requests : MovesForward(r)]_vars

\* One request ended at a fit that raised, with no diagnosis and no forecast
\* made; the other got its success response.
C15_Witness ==
    /\ req[1].pc = "done"
    /\ req[1].err = "fit"
    /\ req[1].http = 500
    /\ req[1].diag = NoResult
    /\ req[1].fc = NoResult
    /\ req[2].pc = "done"
    /\ req[2].http = 200
    /\ req[2].fc.status = "ok"

====
